---- MODULE Spec2Model ----
(***************************************************************************)
(* The chat endpoint of FlashChat AI: POST /api/chat                       *)
(* (src/src/app/api/chat/route.js).  One request is followed from its      *)
(* arrival to the response the handler returns.  The handler runs          *)
(* synchronously between its three suspension points: request.json(),      *)
(* delay(ms) and ai.models.generateContent(); each action below is the     *)
(* code that runs when one of these completes.                             *)
(***************************************************************************)
EXTENDS Integers, Sequences, FiniteSets, TLC

(***************************************************************************)
(* JavaScript values.  A value that may be undefined is a sequence of      *)
(* length 0 (undefined) or 1 (the value).                                  *)
(***************************************************************************)
Undefined == <<>>

Some(v) == <<v>>

IsDefined(o) == o # Undefined

\* the element of a set of one element
Only(S) == CHOOSE x \in S : TRUE

\* Truthiness of an optional string: undefined and "" are falsy.
Truthy(o) == o # Undefined /\ o[1] # ""

\* a || b on optional strings
OrElse(a, b) == IF Truthy(a) THEN a ELSE b

\* A defined value that is not a string (a number, a boolean that is true,
\* an object) is the pair of its rendering as text, which is not empty, and
\* its typeof.
NonString(text, type) == << text, type >>

\* typeof v === "string", for a defined value
IsString(o) == Len(o) = 1

(***************************************************************************)
(* Strings.                                                                *)
(***************************************************************************)
UpperCaseLetters == "ABCDEFGHIJKLMNOPQRSTUVWXYZ"

LowerCaseLetters == "abcdefghijklmnopqrstuvwxyz"

CharAt(s, i) == SubSeq(s, i, i)

\* the lower-case letter of every upper-case letter
LowerOf ==
  [c \in { CharAt(UpperCaseLetters, i) : i \in 1..Len(UpperCaseLetters) } |->
     CharAt(LowerCaseLetters,
            CHOOSE i \in 1..Len(UpperCaseLetters) : CharAt(UpperCaseLetters, i) = c)]

LowerChar(c) == IF c \in DOMAIN LowerOf THEN LowerOf[c] ELSE c

\* the characters of a string, in order
Chars(s) == [i \in 1..Len(s) |-> CharAt(s, i)]

\* String.prototype.toLowerCase, on the characters of a string
ToLowerCase(chars) == [i \in 1..Len(chars) |-> LowerChar(chars[i])]

\* String.prototype.includes, on the characters of two strings
IncludesChars(chars, sub) ==
  \E t \in {chars} :
    \E i \in 1..(Len(t) - Len(sub) + 1) : SubSeq(t, i, i + Len(sub) - 1) = sub

\* String.prototype.includes
Includes(s, sub) ==
  \E t \in {s} :
    \E i \in 1..(Len(t) - Len(sub) + 1) : SubSeq(t, i, i + Len(sub) - 1) = sub

\* String.prototype.startsWith
StartsWith(s, prefix) ==
  Len(s) >= Len(prefix) /\ SubSeq(s, 1, Len(prefix)) = prefix

\* the characters the regular expression class \s matches, as far as the
\* inputs of the model contain them
IsWhitespace(c) == c \in {" ", "\n", "\t"}

\* index of the first character of s at or after position i that is not
\* whitespace, Len(s) + 1 if none
RECURSIVE TrimStart(_, _)
TrimStart(s, i) ==
  IF i > Len(s) THEN Len(s) + 1
  ELSE IF IsWhitespace(CharAt(s, i)) THEN TrimStart(s, i + 1)
       ELSE i

\* index of the last character of s at or before position i that is not
\* whitespace, 0 if none
RECURSIVE TrimEnd(_, _)
TrimEnd(s, i) ==
  IF i < 1 THEN 0
  ELSE IF IsWhitespace(CharAt(s, i)) THEN TrimEnd(s, i - 1)
       ELSE i

\* String.prototype.trim
Trim(s) == Only({ SubSeq(t, TrimStart(t, 1), TrimEnd(t, Len(t))) : t \in {s} })

\* s from position i on, without its whitespace
RECURSIVE WithoutWhitespaceFrom(_, _)
WithoutWhitespaceFrom(s, i) ==
  IF i > Len(s) THEN ""
  ELSE IF IsWhitespace(CharAt(s, i)) THEN WithoutWhitespaceFrom(s, i + 1)
       ELSE CharAt(s, i) \o WithoutWhitespaceFrom(s, i + 1)

\* s.replace(/\s+/g, "")
RemoveWhitespace(s) == Only({ WithoutWhitespaceFrom(t, 1) : t \in {s} })

\* index of the first "," of s at or after position i, Len(s) + 1 if none
RECURSIVE CommaFrom(_, _)
CommaFrom(s, i) ==
  IF i > Len(s) THEN Len(s) + 1
  ELSE IF CharAt(s, i) = "," THEN i
       ELSE CommaFrom(s, i + 1)

\* s.split(",")[1] for a string s that includes ",": the text between the
\* first comma and the second one (or the end of s)
SplitCommaSecond(s) ==
  Only({ SubSeq(s, first + 1, CommaFrom(s, first + 1) - 1) : first \in {CommaFrom(s, 1)} })

(***************************************************************************)
(* Program constants.                                                      *)
(***************************************************************************)
RETRY_DELAY == 1000

MODELS ==
  << "gemini-3-flash-preview",
     "gemini-2.5-flash",
     "gemini-2.5-flash-lite",
     "gemini-2.5-flash-tts",
     "gemma-3-27b-it" >>

\* a variant of line 116 that is off by one
MAX_RETRIES_OffByOne == Len(MODELS)

MAX_RETRIES == Len(MODELS) - 1

\* MODELS[attempt]; JavaScript arrays are indexed from 0 and yield undefined
\* outside their range
ModelAt(attempt) ==
  IF attempt + 1 \in DOMAIN MODELS THEN MODELS[attempt + 1] ELSE "undefined"

DEFAULT_PROMPT == "What is in this image?"

MSG_NO_KEY ==
  "API key not configured. Please add GEMINI_API_KEY to your environment variables."

MSG_BAD_JSON == "Invalid request format. Expected JSON."

MSG_NO_CONTENT == "No content provided. Please include a message or image."

MSG_NO_TEXT == "No text response received from API"

MSG_UNKNOWN == "Unknown error"

MSG_RATE_LIMIT == "Rate limit exceeded. Please wait a moment and try again."

MSG_AUTH == "API authentication failed. Please check your API key configuration."

MSG_FAILED == "Failed to generate response from API."

MSG_UNEXPECTED == "An unexpected error occurred."

\* Response.json(body, { status }); the status defaults to 200
JsonResponse(body, status) == [status |-> status, body |-> body]

(***************************************************************************)
(* Request assembly (route.js lines 44-105).                               *)
(***************************************************************************)
\* a files entry is [kind |-> "null"] or
\* [kind |-> "object", name, type, data], type and data optional strings
IsImageFile(file) == Truthy(file.type) /\ StartsWith(file.type[1], "image/")

\* a variant of line 68 that removes the whitespace at both ends only
CleanBase64_TrimOnly(data) ==
  Trim(IF Includes(data, ",") THEN SplitCommaSecond(data) ELSE data)

\* lines 57-69: the data of an image file that has data, prefix stripped and
\* whitespace removed
CleanBase64(data) ==
  RemoveWhitespace(IF Includes(data, ",") THEN SplitCommaSecond(data) ELSE data)

\* a variant of lines 55-81 without the test of line 71
FileParts_NoEmptyCheck(file) ==
  IF ~IsImageFile(file) THEN <<>>
  ELSE IF ~Truthy(file.data) THEN <<>>
  ELSE << [inlineData |-> [data |-> CleanBase64(file.data[1]),
                           mimeType |-> file.type[1]]] >>

\* lines 55-81, one iteration of the loop: the parts the file adds
FileParts(file) ==
  IF ~IsImageFile(file) THEN <<>>
  ELSE IF ~Truthy(file.data) THEN <<>>
  ELSE Only({ IF base64Data = "" THEN <<>>
              ELSE << [inlineData |-> [data |-> base64Data,
                                       mimeType |-> file.type[1]]] >> :
              base64Data \in {CleanBase64(file.data[1])} })

RECURSIVE ImageParts(_)
ImageParts(items) ==
  IF items = <<>> THEN <<>>
  ELSE FileParts(Head(items)) \o ImageParts(Tail(items))

\* line 53: files && Array.isArray(files) && files.length > 0
HasFiles(files) == files.kind = "array" /\ Len(files.items) > 0

\* line 55: undefined, or the message of the TypeError the test throws for
\* the entry: file.type of null, or startsWith of a type that is truthy and
\* not a string
FileThrows(file) ==
  IF file.kind = "null"
  THEN Some("Cannot read properties of null (reading 'type')")
  ELSE IF Truthy(file.type) /\ ~IsString(file.type)
  THEN Some("file.type.startsWith is not a function")
  ELSE Undefined

\* the loop of lines 54-82 throws at one of the entries
FilesThrow(files) ==
  HasFiles(files) /\ \E i \in DOMAIN files.items : IsDefined(FileThrows(files.items[i]))

\* the message of the TypeError of the first entry that throws
FilesError(files) ==
  FileThrows(files.items[CHOOSE i \in DOMAIN files.items :
                           /\ IsDefined(FileThrows(files.items[i]))
                           /\ \A j \in 1..(i - 1) : ~IsDefined(FileThrows(files.items[j]))])[1]

\* line 87: message?.trim() of a message that is defined and not a string
\* throws a TypeError
MessageThrows(message) == IsDefined(message) /\ ~IsString(message)

\* a variant of lines 86-87 that does not trim the message
Prompt_NoTrim(message, contents) ==
  IF Truthy(message) THEN message
  ELSE IF Len(contents) > 0 THEN Some(DEFAULT_PROMPT)
  ELSE Undefined

\* lines 86-87: message?.trim() || (contents.length > 0 ? default : null)
Prompt(message, contents) ==
  Only({ IF Truthy(trimmed) THEN trimmed
         ELSE IF Len(contents) > 0 THEN Some(DEFAULT_PROMPT)
         ELSE Undefined :
         trimmed \in {IF IsDefined(message) THEN Some(Trim(message[1])) ELSE Undefined} })

\* a variant of lines 89-97 that puts the text part first
BuildContents_TextFirst(body) ==
  Only({ Only({ IF Truthy(prompt) THEN << [text |-> prompt[1]] >> \o images ELSE images :
                prompt \in {Prompt(body.message, images)} }) :
         images \in {IF HasFiles(body.files) THEN ImageParts(body.files.items) ELSE <<>>} })

\* lines 50-97: the contents array of a parsed body whose files do not throw.
\* The text part is a bare string in the code; it is a record here so that
\* the parts of one array have one shape.
BuildContents(body) ==
  Only({ Only({ IF Truthy(prompt) THEN Append(images, [text |-> prompt[1]]) ELSE images :
                prompt \in {Prompt(body.message, images)} }) :
         images \in {IF HasFiles(body.files) THEN ImageParts(body.files.items) ELSE <<>>} })

\* line 100
IsEmptyContents(contents) == Len(contents) = 0

(***************************************************************************)
(* The fallback loop and the final classification (lines 116-202).         *)
(***************************************************************************)
\* an error object: [status, message, nested], all optional; nested is
\* apiError.error.message

\* line 138-139: a response without text becomes this Error
NoTextError == [status |-> Undefined, message |-> Some(MSG_NO_TEXT), nested |-> Undefined]

\* a variant of line 138 that only tests for a missing text
HasText_DefinedOnly(responseText) == IsDefined(responseText)

\* line 138
HasText(responseText) == Truthy(responseText)

\* a variant of line 144 that keeps the first error caught
CatchError_KeepFirst(previous, apiError) ==
  IF IsDefined(previous) THEN previous ELSE Some(apiError)

\* line 144
CatchError(previous, apiError) == Some(apiError)

\* lines 147-148, the message that is logged for the failed attempt
LoggedMessage(apiError) ==
  OrElse(apiError.nested, OrElse(apiError.message, Some(MSG_UNKNOWN)))[1]

\* a variant of line 157 that stops on no status below 500
IsTrueClientError_ServerOnly(status) ==
  /\ IsDefined(status)
  /\ status[1] >= 500

\* a variant of line 157 that stops on every 4xx status, as an earlier
\* version of the handler did
IsTrueClientError_Any4xx(status) ==
  /\ IsDefined(status)
  /\ status[1] >= 400
  /\ status[1] < 500

\* line 157
IsTrueClientError(status) ==
  /\ IsDefined(status)
  /\ status[1] >= 400
  /\ status[1] < 500
  /\ status[1] # 429
  /\ status[1] # 404

\* a variant of the loop increment that skips a model
NextAttempt_Skip(attempt) == attempt + 2

\* line 119, attempt++
NextAttempt(attempt) == attempt + 1

\* a variant of line 127 that waits the same time before every retry
BackoffDelay_Constant(attempt) == RETRY_DELAY

\* line 127: the argument of delay()
BackoffDelay(attempt) == RETRY_DELAY * attempt

\* line 119, attempt <= MAX_RETRIES
LoopContinues(attempt) == attempt <= MAX_RETRIES

\* lines 169-173: errorMessage.toLowerCase() throws a TypeError when the
\* message of the error is truthy and not a string
ClassificationThrows(lastError) ==
  /\ IsDefined(lastError)
  /\ Truthy(lastError[1].message)
  /\ ~IsString(lastError[1].message)

\* line 167
ErrorMessage(lastError) ==
  IF IsDefined(lastError)
  THEN OrElse(lastError[1].message, Some(MSG_UNKNOWN))[1]
  ELSE MSG_UNKNOWN

\* a variant of lines 168-170 that compares without toLowerCase()
IsRateLimitError_CaseSensitive(errorMessage) ==
  \/ IncludesChars(Chars(errorMessage), Chars("rate limit"))
  \/ IncludesChars(Chars(errorMessage), Chars("quota"))

\* lines 168-170
IsRateLimitError(errorMessage) ==
  \/ IncludesChars(ToLowerCase(Chars(errorMessage)), Chars("rate limit"))
  \/ IncludesChars(ToLowerCase(Chars(errorMessage)), Chars("quota"))

\* lines 171-173
IsAuthError(errorMessage) ==
  \/ IncludesChars(ToLowerCase(Chars(errorMessage)), Chars("api key"))
  \/ IncludesChars(ToLowerCase(Chars(errorMessage)), Chars("authentication"))

\* lines 175-202
FailureResponse(lastError) ==
  Only({ IF IsRateLimitError(errorMessage)
         THEN JsonResponse([error |-> MSG_RATE_LIMIT, details |-> errorMessage], 429)
         ELSE IF IsAuthError(errorMessage)
         THEN JsonResponse([error |-> MSG_AUTH, details |-> errorMessage], 401)
         ELSE JsonResponse([error |-> MSG_FAILED, details |-> errorMessage], 500) :
         errorMessage \in {ErrorMessage(lastError)} })

\* a variant of line 142 that answers with the fixed default text
SuccessResponse_Fixed(responseText) == JsonResponse([response |-> DEFAULT_PROMPT], 200)

\* line 142
SuccessResponse(responseText) == JsonResponse([response |-> responseText], 200)

\* lines 203-211, the outer catch
UnexpectedResponse(message) ==
  JsonResponse([error |-> MSG_UNEXPECTED,
                details |-> OrElse(message, Some(MSG_UNKNOWN))[1]], 500)

\* a value thrown inside the handler: null or undefined, or a value with
\* an optional message
Thrown(nullish, message) == [nullish |-> nullish, message |-> message]

\* the TypeError the runtime throws
TypeError(message) == Thrown(FALSE, Some(message))

\* a variant of the handler without the try block of lines 19 and 203
HandlerCatches_Nothing(error) == FALSE

\* lines 19, 203-211: the whole body of the handler is one try block; its
\* catch reads error.message, which throws again for null and undefined
HandlerCatches(error) == ~error.nullish

(***************************************************************************)
(* Inputs: the request bodies a client may send and the outcomes the       *)
(* upstream provider may produce for one generateContent call.             *)
(***************************************************************************)
\* longest files array of a request
MaxFiles == 2

Messages == { Undefined, Some(""), Some(" \n"), Some(" hi ") }

NullFile == [kind |-> "null"]

File(type, data) == [kind |-> "object", name |-> "f", type |-> type, data |-> data]

Files ==
  { File(Some("text/plain"), Some("QUJD")),
    File(Some("image/png"), Undefined),
    File(Some("image/png"), Some(" \n")),
    File(Some("image/png"), Some("data:image/png;base64,")),
    File(Some("image/png"), Some("data:image/png;base64,iVBO Rw0K\n")) }

RECURSIVE SeqsUpTo(_, _)
SeqsUpTo(S, n) ==
  IF n = 0 THEN { <<>> }
  ELSE LET shorter == SeqsUpTo(S, n - 1)
       IN  shorter \cup { Append(q, x) : q \in shorter, x \in S }

FilesValues ==
  { [kind |-> "undefined"], [kind |-> "notArray"] }
  \cup { [kind |-> "array", items |-> q] : q \in SeqsUpTo(Files \cup {NullFile}, MaxFiles) }

\* what request.json() yields: a rejection, null, or an object
Requests ==
  { [kind |-> "unparseable"], [kind |-> "null"] }
  \cup { [kind |-> "object", message |-> m, files |-> f] :
           m \in Messages, f \in FilesValues }

Consumed == [kind |-> "consumed"]

ApiError(status, message, nested) ==
  [status |-> status, message |-> message, nested |-> nested]

\* errors generateContent may reject with
UpstreamErrors ==
  { ApiError(Some(503), Some("Service Unavailable"), Undefined),
    ApiError(Some(429), Some("Quota exceeded for model"), Undefined),
    ApiError(Some(404), Some("Not Found"), Some("quota project not found")),
    ApiError(Undefined, Some("fetch failed"), Undefined),
    ApiError(Some(403), Some("Invalid API Key"), Undefined),
    ApiError(Some(401), Some("AUTHENTICATION required"), Undefined),
    ApiError(Some(400), Some("Rate Limit reached for this api key"), Undefined),
    ApiError(Some(400), Some(""), Undefined),
    ApiError(Some(499), Some("ratelimit quot apikey"), Undefined) }

\* response.text of a call that resolves
ResponseTexts == { Undefined, Some(""), Some("Hello!"), Some("**Hi** there") }

Resolved(text) == [kind |-> "response", text |-> text]

Rejected(error) == [kind |-> "error", error |-> error]

(***************************************************************************)
(* State.                                                                  *)
(***************************************************************************)
VARIABLES
  pc,          \* where the handler is: "start", "parsing", "calling",
               \* "delaying", "done" (it returned), "threw" (it ended by
               \* throwing)
  apiKeySet,   \* process.env.GEMINI_API_KEY is configured
  request,     \* the body of the request, until request.json() reads it
  contents,    \* the contents array
  attempt,     \* the loop variable
  lastError,   \* undefined or the error caught last
  response,    \* undefined or the response the handler returned
  attempts,    \* history: the generateContent calls, in the order they
               \* started, each with its model, its result ("pending",
               \* "ok" or "failed") and the status of its failure
  outcome,     \* history: undefined or what the generateContent call that
               \* completed last resolved or rejected with
  delays       \* history: the arguments of the delay() calls, in order

\* the state of the page (src/src/app/page.js)
VARIABLES
  conversations,  \* the conversations state: a sequence of conversations,
                  \* each with its id and its messages
  activeConvId,   \* the activeConvId state
  isLoading,      \* the isLoading state
  storageLoaded,  \* the storageLoaded state
  storage,        \* the item 'chatbot-data' of localStorage
  now,            \* what Date.now() returns
  pending,        \* undefined or the fetch in flight, with the activeConvId
                  \* its handleSend was called with
  sends           \* history: the number of requests started

serverVars == << pc, apiKeySet, request, contents, attempt, lastError, response,
                 attempts, outcome, delays >>

clientVars == << conversations, activeConvId, isLoading, storageLoaded, storage,
                 now, pending, sends >>

vars == << serverVars, clientVars >>

\* the id of the conversation the page starts with (line 62)
FirstConvId == 1

\* the first value of Date.now() in a behaviour
FirstNow == 2

Conversation(id, messages) == [id |-> id, messages |-> messages]

\* lines 61-70: the state of the page when it is mounted, before its
\* effects run
Mounted ==
  /\ conversations = << Conversation(FirstConvId, <<>>) >>
  /\ activeConvId = FirstConvId
  /\ isLoading = FALSE
  /\ storageLoaded = FALSE
  /\ pending = Undefined

\* the page while the handler serves one request
ClientStart ==
  /\ Mounted
  /\ storage = Undefined
  /\ now = FirstNow
  /\ sends = 0

Init ==
  /\ ClientStart
  /\ pc = "start"
  /\ apiKeySet \in BOOLEAN
  /\ request \in Requests
  /\ contents = <<>>
  /\ attempt = 0
  /\ lastError = Undefined
  /\ response = Undefined
  /\ attempts = <<>>
  /\ outcome = Undefined
  /\ delays = <<>>

\* return Response.json(...)
Return(r) ==
  /\ response' = Some(r)
  /\ pc' = "done"

\* a value is thrown outside the inner try block of lines 129-161
OuterCatch(error) ==
  IF HandlerCatches(error)
  THEN Return(UnexpectedResponse(error.message))
  ELSE /\ pc' = "threw"
       /\ UNCHANGED response

\* line 130: the call of generateContent is started
StartCall(a) ==
  /\ attempts' = Append(attempts, [model |-> ModelAt(a), result |-> "pending",
                                   status |-> Undefined])
  /\ pc' = "calling"

\* lines 120-130: the loop body up to its first await
EnterIteration(a) ==
  IF a > 0
  THEN /\ delays' = Append(delays, BackoffDelay(a))
       /\ pc' = "delaying"
       /\ UNCHANGED attempts
  ELSE /\ StartCall(a)
       /\ UNCHANGED delays

\* a variant of line 21 that never finds the key missing
ApiKeyMissing_Never(keySet) == FALSE

\* line 21: !apiKey
ApiKeyMissing(keySet) == ~keySet

\* lines 18-35: the handler is entered
Receive ==
  /\ pc = "start"
  /\ IF ApiKeyMissing(apiKeySet)
     THEN Return(JsonResponse([error |-> MSG_NO_KEY], 500))
     ELSE pc' = "parsing" /\ UNCHANGED response
  /\ UNCHANGED << apiKeySet, request, contents, attempt, lastError, attempts,
                  outcome, delays >>
  /\ UNCHANGED clientVars

\* lines 35-130: request.json() completes; the body is destructured, the
\* contents are assembled and validated, and the first attempt is started
BodyParsed ==
  /\ pc = "parsing"
  /\ request' = Consumed
  /\ UNCHANGED << apiKeySet, attempt, lastError, outcome >>
  /\ UNCHANGED clientVars
  /\ IF request.kind = "unparseable"
     THEN /\ Return(JsonResponse([error |-> MSG_BAD_JSON], 400))
          /\ UNCHANGED << contents, attempts, delays >>
     ELSE IF request.kind = "null"
     THEN /\ OuterCatch(TypeError(
                         "Cannot destructure property 'message' of 'body' as it is null."))
          /\ UNCHANGED << contents, attempts, delays >>
     ELSE IF FilesThrow(request.files)
     THEN /\ OuterCatch(TypeError(FilesError(request.files)))
          /\ UNCHANGED << contents, attempts, delays >>
     ELSE IF MessageThrows(request.message)
     THEN /\ OuterCatch(TypeError("message?.trim is not a function"))
          /\ UNCHANGED << contents, attempts, delays >>
     ELSE \E built \in {BuildContents(request)} :
            /\ contents' = built
            /\ IF IsEmptyContents(built)
               THEN /\ Return(JsonResponse([error |-> MSG_NO_CONTENT], 400))
                    /\ UNCHANGED << attempts, delays >>
               ELSE /\ EnterIteration(attempt)
                    /\ UNCHANGED response

\* lines 127-130: the backoff timer fires and the call is started
DelayElapsed ==
  /\ pc = "delaying"
  /\ StartCall(attempt)
  /\ UNCHANGED << apiKeySet, request, contents, attempt, lastError, response,
                  outcome, delays >>
  /\ UNCHANGED clientVars

\* the outcome of the call in flight is recorded in the history
Settle(o, result, status) ==
  /\ outcome' = Some(o)
  /\ attempts' = [attempts EXCEPT ![Len(attempts)].result = result,
                                  ![Len(attempts)].status = status]

\* lines 164-202: the final classification
Classify(caught) ==
  IF ClassificationThrows(caught)
  THEN OuterCatch(TypeError("errorMessage.toLowerCase is not a function"))
  ELSE Return(FailureResponse(caught))

\* lines 143-162 and 164-202: the catch block, the loop's exit or its next
\* iteration, and the final classification
AttemptFailed(apiError) ==
  \E caught \in {CatchError(lastError, apiError)}, next \in {NextAttempt(attempt)} :
      /\ lastError' = caught
      /\ IF IsTrueClientError(apiError.status)
         THEN /\ Classify(caught)
              /\ UNCHANGED << attempt, delays >>
         ELSE /\ attempt' = next
              /\ IF LoopContinues(next)
                 THEN /\ delays' = Append(delays, BackoffDelay(next))
                      /\ pc' = "delaying"
                      /\ UNCHANGED response
                 ELSE /\ Classify(caught)
                      /\ UNCHANGED delays

\* lines 130-142: generateContent resolves
UpstreamResolves ==
  /\ pc = "calling"
  /\ \E text \in ResponseTexts :
       IF HasText(text)
       THEN /\ Settle(Resolved(text), "ok", Undefined)
            /\ Return(SuccessResponse(text[1]))
            /\ UNCHANGED << attempt, lastError, delays >>
       ELSE /\ Settle(Resolved(text), "failed", NoTextError.status)
            /\ AttemptFailed(NoTextError)
  /\ UNCHANGED << apiKeySet, request, contents >>
  /\ UNCHANGED clientVars

\* lines 130, 143: generateContent rejects
UpstreamRejects ==
  /\ pc = "calling"
  /\ \E error \in UpstreamErrors :
       /\ Settle(Rejected(error), "failed", error.status)
       /\ AttemptFailed(error)
  /\ UNCHANGED << apiKeySet, request, contents >>
  /\ UNCHANGED clientVars

Next ==
  \/ Receive
  \/ BodyParsed
  \/ DelayElapsed
  \/ UpstreamResolves
  \/ UpstreamRejects

Spec == Init /\ [][Next]_vars

\* every await of the handler completes: request.json(), the timer of
\* delay() and the call of generateContent settle eventually
LiveSpec == Init /\ [][Next]_vars /\ WF_vars(Next)

(***************************************************************************)
(* The request assembly on its own: the handler from its entry to the end  *)
(* of the assembly (lines 18-105), over a wider range of messages and      *)
(* attachments than Spec explores together with the fallback loop.         *)
(***************************************************************************)
\* longest files array of a request of AssemblerSpec
AssemblerMaxFiles == 3

AssemblerMessages ==
  { Undefined, Some(""), Some(" \n\t"), Some(" hi "), Some("\tWhat is  this?\n") }

AssemblerFiles ==
  { File(Some("text/plain"), Some("QUJD")),
    File(Undefined, Some("QUJD")),
    File(Some(""), Some("data:image/png;base64,QUJD")),
    File(Some("image/png"), Undefined),
    File(Some("image/png"), Some("")),
    File(Some("image/png"), Some(" \n")),
    File(Some("image/png"), Some("data:image/png;base64, \n")),
    File(Some("image/png"), Some("data:image/png;base64,iVBO Rw0K\n")),
    File(Some("image/jpeg"), Some(" /9j/ 4AAQ\t")),
    File(Some("image/gif"), Some("R0lGODlh")) }

AssemblerRequests ==
  { [kind |-> "object", message |-> m, files |-> f] :
      m \in AssemblerMessages,
      f \in { [kind |-> "undefined"] }
           \cup { [kind |-> "array", items |-> q] :
                    q \in SeqsUpTo(AssemblerFiles, AssemblerMaxFiles) } }

AssemblerInit ==
  /\ ClientStart
  /\ pc = "start"
  /\ apiKeySet = TRUE
  /\ request \in AssemblerRequests
  /\ contents = <<>>
  /\ attempt = 0
  /\ lastError = Undefined
  /\ response = Undefined
  /\ attempts = <<>>
  /\ outcome = Undefined
  /\ delays = <<>>

AssemblerNext ==
  \/ Receive
  \/ BodyParsed

AssemblerSpec == AssemblerInit /\ [][AssemblerNext]_vars

(***************************************************************************)
(* The handler over bodies and upstream failures of any JSON or JavaScript *)
(* type: messages and file types that are not strings, null entries, and   *)
(* thrown values that are not Error objects.  A body that is a number, a   *)
(* string, a boolean or an array destructures to an undefined message and  *)
(* undefined files, and an entry of files that is a number, a string or an *)
(* empty object has an undefined type and undefined data.                  *)
(***************************************************************************)
BoundaryMessages == { Undefined, Some(" hi "), NonString("42", "number") }

BoundaryEntries ==
  { NullFile,
    File(Undefined, Undefined),
    File(NonString("7", "number"), Some("QUJD")),
    File(Some("text/plain"), Some("QUJD")),
    File(Some("image/png"), Some("data:image/png;base64,iVBO Rw0K\n")) }

BoundaryRequests ==
  { [kind |-> "unparseable"], [kind |-> "null"] }
  \cup { [kind |-> "object", message |-> m, files |-> f] :
           m \in BoundaryMessages,
           f \in { [kind |-> "undefined"], [kind |-> "notArray"] }
                \cup { [kind |-> "array", items |-> q] :
                         q \in SeqsUpTo(BoundaryEntries, MaxFiles) } }

\* values generateContent may reject with that are not Error objects with
\* a text as message: null, undefined, a string or an empty object (no
\* status, no message); objects whose message is a number
OtherThrownValues ==
  { ApiError(Undefined, Undefined, Undefined),
    ApiError(Some(418), Undefined, Undefined),
    ApiError(Undefined, NonString("42", "number"), Undefined),
    ApiError(Some(400), NonString("42", "number"), Some("quota")) }

BoundaryInit ==
  /\ ClientStart
  /\ pc = "start"
  /\ apiKeySet \in BOOLEAN
  /\ request \in BoundaryRequests
  /\ contents = <<>>
  /\ attempt = 0
  /\ lastError = Undefined
  /\ response = Undefined
  /\ attempts = <<>>
  /\ outcome = Undefined
  /\ delays = <<>>

\* lines 130, 143: generateContent rejects with such a value
UpstreamRejectsOther ==
  /\ pc = "calling"
  /\ \E error \in OtherThrownValues :
       /\ Settle(Rejected(error), "failed", error.status)
       /\ AttemptFailed(error)
  /\ UNCHANGED << apiKeySet, request, contents >>
  /\ UNCHANGED clientVars

BoundaryNext ==
  \/ Receive
  \/ BodyParsed
  \/ DelayElapsed
  \/ UpstreamResolves
  \/ UpstreamRejects
  \/ UpstreamRejectsOther

BoundarySpec == BoundaryInit /\ [][BoundaryNext]_vars

(***************************************************************************)
(* The page (src/src/app/page.js): the conversations, the active           *)
(* conversation and the request in flight.  The text of the messages, the  *)
(* titles and the attached files are left out; a message carries the       *)
(* number of the request it belongs to.  The handler answers a request of  *)
(* the page with a reply or with a failure.                                *)
(***************************************************************************)
\* last value of Date.now()
MaxNow == 4

\* longest list of conversations createNewConversation extends
MaxConversations == 3

\* number of requests of a behaviour
MaxSends == 2

UserMessage(n) == [role |-> "user", req |-> n, isError |-> FALSE]

AssistantMessage(n, isError) == [role |-> "assistant", req |-> n, isError |-> isError]

ConvIds(convs) == { convs[i].id : i \in DOMAIN convs }

\* prev.map(conv => conv.id === id ? {...conv, messages: [...conv.messages,
\* message]} : conv), lines 130-140, 177-181 and 194-198
AppendTo(convs, id, message) ==
  [i \in DOMAIN convs |->
     IF convs[i].id = id
     THEN Conversation(convs[i].id, Append(convs[i].messages, message))
     ELSE convs[i]]

\* conversations.filter(c => c.id !== id), line 218
Without(convs, id) ==
  LET Keep(c) == c.id # id IN SelectSeq(convs, Keep)

\* what JSON.parse yields for an item that is not the JSON of an object
Malformed == [kind |-> "malformed"]

\* the item the page saves, lines 105-108
Saved(convs, active) ==
  [kind |-> "data", conversations |-> convs, activeConvId |-> active]

\* the new values of conversations and activeConvId are rendered, and the
\* effect of lines 101-113 saves them
Commit(convs, active) ==
  /\ conversations' = convs
  /\ activeConvId' = active
  /\ storage' = Some(Saved(convs, active))

\* the handler is not running
ServerIdle ==
  /\ pc = "start"
  /\ apiKeySet = TRUE
  /\ request = Consumed
  /\ contents = <<>>
  /\ attempt = 0
  /\ lastError = Undefined
  /\ response = Undefined
  /\ attempts = <<>>
  /\ outcome = Undefined
  /\ delays = <<>>

ClientInit ==
  /\ ServerIdle
  /\ Mounted
  /\ storage \in { Undefined, Some(Malformed) }
  /\ now = FirstNow
  /\ sends = 0

\* time passes
Tick ==
  /\ now < MaxNow
  /\ now' = now + 1
  /\ UNCHANGED << conversations, activeConvId, isLoading, storageLoaded, storage,
                  pending, sends >>
  /\ UNCHANGED serverVars

\* lines 77-99 and 101-113: the effect that runs once after the page is
\* mounted, and the first save
LoadConversations ==
  /\ ~storageLoaded
  /\ storageLoaded' = TRUE
  /\ IF /\ storage # Undefined
        /\ storage[1].kind = "data"
        /\ Len(storage[1].conversations) > 0
     THEN Commit(storage[1].conversations,
                 IF storage[1].activeConvId \in ConvIds(storage[1].conversations)
                 THEN storage[1].activeConvId
                 ELSE activeConvId)
     ELSE Commit(conversations, activeConvId)
  /\ UNCHANGED << isLoading, now, pending, sends >>
  /\ UNCHANGED serverVars

\* line 389: a conversation of the list is clicked
SelectConversation(id) ==
  /\ storageLoaded
  /\ id \in ConvIds(conversations)
  /\ Commit(conversations, id)
  /\ UNCHANGED << isLoading, storageLoaded, now, pending, sends >>
  /\ UNCHANGED serverVars

\* lines 205-213
CreateNewConversation ==
  /\ storageLoaded
  /\ Len(conversations) < MaxConversations
  /\ Commit(Append(conversations, Conversation(now, <<>>)), now)
  /\ UNCHANGED << isLoading, storageLoaded, now, pending, sends >>
  /\ UNCHANGED serverVars

\* lines 215-224; filtered[0].id of an empty list throws a TypeError after
\* setConversations(filtered) was called
DeleteConversation(id) ==
  /\ storageLoaded
  /\ id \in ConvIds(conversations)
  /\ Len(conversations) # 1
  /\ \E filtered \in {Without(conversations, id)} :
       Commit(filtered,
              IF activeConvId = id /\ filtered # <<>>
              THEN filtered[1].id
              ELSE activeConvId)
  /\ UNCHANGED << isLoading, storageLoaded, now, pending, sends >>
  /\ UNCHANGED serverVars

\* lines 230-246
ConfirmClearAll ==
  /\ storageLoaded
  /\ Commit(<< Conversation(now, <<>>) >>, now)
  /\ UNCHANGED << isLoading, storageLoaded, now, pending, sends >>
  /\ UNCHANGED serverVars

\* line 120: handleSend returns at once
SendBlocked(hasContent, loading) == ~hasContent \/ loading

\* lines 119-158: handleSend up to its fetch.  Reading activeConv.messages
\* of a missing active conversation throws before the fetch is made; the
\* catch and finally blocks then leave the conversations as they are.
HandleSend ==
  /\ storageLoaded
  /\ sends < MaxSends
  /\ \E hasContent \in BOOLEAN :
       IF SendBlocked(hasContent, isLoading) \/ activeConvId \notin ConvIds(conversations)
       THEN UNCHANGED << conversations, activeConvId, isLoading, storage, pending, sends >>
       ELSE /\ sends' = sends + 1
            /\ Commit(AppendTo(conversations, activeConvId, UserMessage(sends + 1)),
                      activeConvId)
            /\ isLoading' = TRUE
            /\ pending' = Some([convId |-> activeConvId, req |-> sends + 1])
  /\ UNCHANGED << storageLoaded, now >>
  /\ UNCHANGED serverVars

\* lines 160-202: the fetch settles; the reply, or the error message of a
\* failure (a response that is not ok, a body without response, a rejected
\* fetch), is appended and isLoading is reset
ReplyArrives ==
  /\ pending # Undefined
  /\ \E failed \in BOOLEAN :
       Commit(AppendTo(conversations, pending[1].convId,
                       AssistantMessage(pending[1].req, failed)),
              activeConvId)
  /\ isLoading' = FALSE
  /\ pending' = Undefined
  /\ UNCHANGED << storageLoaded, now, sends >>
  /\ UNCHANGED serverVars

\* the page is loaded again: its state is the initial state of lines 61-70
\* and the request in flight is abandoned
Reload ==
  /\ storageLoaded
  /\ conversations' = << Conversation(FirstConvId, <<>>) >>
  /\ activeConvId' = FirstConvId
  /\ isLoading' = FALSE
  /\ storageLoaded' = FALSE
  /\ pending' = Undefined
  /\ UNCHANGED << storage, now, sends >>
  /\ UNCHANGED serverVars

ClientNext ==
  \/ Tick
  \/ LoadConversations
  \/ \E id \in ConvIds(conversations) : SelectConversation(id)
  \/ CreateNewConversation
  \/ \E id \in ConvIds(conversations) : DeleteConversation(id)
  \/ ConfirmClearAll
  \/ HandleSend
  \/ ReplyArrives
  \/ Reload

ClientSpec == ClientInit /\ [][ClientNext]_vars

(***************************************************************************)
(* Properties of the fallback dispatcher.                                  *)
(***************************************************************************)
InFlight == { i \in DOMAIN attempts : attempts[i].result = "pending" }

\* a status of a client error that ends the fallback chain
NonRetryableStatus(status) ==
  status # Undefined /\ status[1] \in (400..499) \ {429, 404}

\* C1: the models are attempted in the fixed priority order from index 0,
\* one at a time: the i-th call is to the i-th model, every call but the
\* latest has finished with a failure, and at most one call is in flight,
\* which is the latest one.
C1_SequentialPriorityOrder ==
  /\ Len(attempts) <= Len(MODELS)
  /\ \A i \in DOMAIN attempts :
       /\ i <= Len(MODELS) => attempts[i].model = MODELS[i]
       /\ i < Len(attempts) => attempts[i].result = "failed"
  /\ Cardinality(InFlight) <= 1
  /\ InFlight \subseteq { Len(attempts) }
  /\ (pc = "calling") <=> (InFlight # {})

C1_Witness ==
  /\ pc = "calling"
  /\ Len(attempts) = Len(MODELS)
  /\ attempts[Len(MODELS)].model = "gemma-3-27b-it"
  /\ attempts[Len(MODELS)].result = "pending"

\* C2: when an attempt succeeds, the handler has returned status 200 with
\* {response: text} carrying the text that attempt resolved with, and the
\* successful attempt is the last call of the request.
C2_FirstSuccessIsReturned ==
  \A i \in DOMAIN attempts :
    attempts[i].result = "ok" =>
      /\ i = Len(attempts)
      /\ pc = "done"
      /\ outcome # Undefined
      /\ outcome[1].kind = "response"
      /\ outcome[1].text \notin { Undefined, Some("") }
      /\ response = Some([status |-> 200, body |-> [response |-> outcome[1].text[1]]])

C2_Witness ==
  /\ Len(attempts) = 3
  /\ attempts[3].result = "ok"
  /\ outcome = Some(Resolved(Some("Hello!")))
  /\ response = Some([status |-> 200, body |-> [response |-> "Hello!"]])

\* C3: an attempt that fails with a status in 400..499 other than 429 and
\* 404 is the last call of the request (a 403 on the first attempt leaves
\* exactly one attempt), and the request has ended with a failure response.
C3_ClientErrorStopsChain ==
  \A i \in DOMAIN attempts :
    (attempts[i].result = "failed" /\ NonRetryableStatus(attempts[i].status)) =>
      /\ i = Len(attempts)
      /\ pc = "done"
      /\ response # Undefined
      /\ response[1].status \in {401, 429, 500}
      /\ "error" \in DOMAIN response[1].body

C3_Witness ==
  /\ pc = "done"
  /\ Len(attempts) = 1
  /\ attempts[1].result = "failed"
  /\ attempts[1].status = Some(403)
  /\ response # Undefined
  /\ response[1].status = 401

\* C4: after a failure that is not a non-retryable client error (a 5xx
\* status, no status, 429 or 404) of an attempt that is not the last of the
\* list, the next model is attempted: its call has started, or the backoff
\* before it is being waited and the step that ends the wait starts it.
\* Failures 503 and 429 followed by a success are exactly 3 attempts in
\* order, answered with the third attempt's text.
C4_RetryableGoesOn ==
  /\ [](\A i \in DOMAIN attempts :
          ( /\ attempts[i].result = "failed"
            /\ ~NonRetryableStatus(attempts[i].status)
            /\ i < Len(MODELS) ) =>
              \/ /\ Len(attempts) > i
                 /\ attempts[i + 1].model = MODELS[i + 1]
              \/ /\ Len(attempts) = i
                 /\ pc = "delaying"
                 /\ attempt = i)
  /\ []( ( /\ Len(attempts) >= 3
           /\ attempts[1].status = Some(503)
           /\ attempts[2].status = Some(429)
           /\ attempts[3].result = "ok" ) =>
             /\ Len(attempts) = 3
             /\ [k \in 1..3 |-> attempts[k].model] = SubSeq(MODELS, 1, 3)
             /\ response = Some([status |-> 200,
                                 body |-> [response |-> outcome[1].text[1]]]) )
  /\ [][ pc = "delaying" =>
           /\ pc' = "calling"
           /\ attempts' = Append(attempts, [model |-> MODELS[Len(attempts) + 1],
                                            result |-> "pending",
                                            status |-> Undefined]) ]_vars

C4_Witness ==
  /\ pc = "done"
  /\ Len(attempts) = 3
  /\ attempts[1].status = Some(503)
  /\ attempts[2].status = Some(429)
  /\ attempts[3].result = "ok"
  /\ response = Some([status |-> 200, body |-> [response |-> "**Hi** there"]])

\* C5: every request reaches exactly one terminal outcome: the handler has
\* returned a response exactly when it is done, a response once returned
\* never changes, the response is either the success (200 with a response
\* text) or a failure (an error status with an error text), at most
\* Len(MODELS) = 5 upstream calls are made, and when every await completes
\* the handler eventually returns.
C5_ExactlyOneTerminalOutcome ==
  /\ []((pc = "done") <=> (response # Undefined))
  /\ [](response # Undefined =>
          (response[1].status = 200) = ("response" \in DOMAIN response[1].body))
  /\ [](response # Undefined =>
          (response[1].status # 200) = ("error" \in DOMAIN response[1].body))
  /\ [][response # Undefined => response' = response]_vars
  /\ [](Len(attempts) <= 5)
  /\ <>(pc = "done" /\ response # Undefined)

C5_Witness ==
  /\ pc = "done"
  /\ Len(attempts) = 5
  /\ \A i \in DOMAIN attempts : attempts[i].result = "failed"
  /\ response # Undefined
  /\ response[1].status = 500

(***************************************************************************)
(* Properties of the final classification.                                 *)
(***************************************************************************)
\* the handler has returned after the fallback loop ended without a success
DispatchFailed ==
  /\ pc = "done"
  /\ attempts # <<>>
  /\ attempts[Len(attempts)].result = "failed"

\* the error of the last failing attempt: what generateContent rejected
\* with, or the Error thrown for a response without text
LastFailure ==
  IF outcome[1].kind = "error" THEN outcome[1].error
  ELSE [status |-> Undefined,
        message |-> Some("No text response received from API"),
        nested |-> Undefined]

\* its top-level message
LastFailureMessage ==
  IF LastFailure.message \in { Undefined, Some("") } THEN "Unknown error"
  ELSE LastFailure.message[1]

\* keyword occurs in message, letter case ignored
ContainsIgnoreCase(message, keyword) ==
  \E i \in 1..(Len(message) - Len(keyword) + 1) :
    \A j \in 1..Len(keyword) :
      LowerChar(CharAt(message, i + j - 1)) = CharAt(keyword, j)

ExpectedStatus(message) ==
  IF ContainsIgnoreCase(message, "rate limit") \/ ContainsIgnoreCase(message, "quota")
  THEN 429
  ELSE IF ContainsIgnoreCase(message, "api key")
          \/ ContainsIgnoreCase(message, "authentication")
  THEN 401
  ELSE 500

\* C6: on a terminal dispatch failure the status is 429 when the last
\* failing outcome's message contains "rate limit" or "quota" in any letter
\* case, otherwise 401 when it contains "api key" or "authentication",
\* otherwise 500; the rate-limit test wins when both kinds occur.
C6_StatusFromLastMessage ==
  DispatchFailed =>
    /\ response[1].status = ExpectedStatus(LastFailureMessage)
    /\ LastFailureMessage = "Quota exceeded for model" => response[1].status = 429
    /\ LastFailureMessage = "Invalid API Key" => response[1].status = 401
    /\ LastFailureMessage = "AUTHENTICATION required" => response[1].status = 401
    /\ LastFailureMessage = "Rate Limit reached for this api key"
         => response[1].status = 429
    /\ LastFailureMessage = "ratelimit quot apikey" => response[1].status = 500
    /\ LastFailureMessage = "Unknown error" => response[1].status = 500

C6_Witness ==
  /\ DispatchFailed
  /\ LastFailureMessage = "Rate Limit reached for this api key"
  /\ response[1].status = 429

\* C7: the message that is classified and returned as details is the
\* message the dispatcher extracts for the failing attempt (the nested
\* error.error.message when there is one, else the top-level message):
\* details is that message and the status is its classification.
C7_DetailsIsExtractedMessage ==
  DispatchFailed =>
    /\ response[1].body.details = LoggedMessage(lastError[1])
    /\ response[1].status = ExpectedStatus(LoggedMessage(lastError[1]))

\* C8: only the last failing attempt shapes the failure response: lastError
\* is the error of the last attempt and details is its message, whatever
\* the earlier attempts failed with; a quota failure of the first attempt
\* followed by a 503 on the last one is answered 500 with the 503's message.
C8_OnlyLastFailureCounts ==
  DispatchFailed =>
    /\ lastError = Some(LastFailure)
    /\ response[1].body.details = LastFailureMessage
    /\ response[1].status = ExpectedStatus(response[1].body.details)
    /\ ( /\ attempts[1].status = Some(429)
         /\ Len(attempts) > 1
         /\ outcome[1] = Rejected(ApiError(Some(503), Some("Service Unavailable"),
                                           Undefined)) ) =>
           response[1] = [status |-> 500,
                          body |-> [error |-> "Failed to generate response from API.",
                                    details |-> "Service Unavailable"]]

C8_Witness ==
  /\ DispatchFailed
  /\ Len(attempts) = 5
  /\ attempts[1].status = Some(429)
  /\ outcome[1] = Rejected(ApiError(Some(503), Some("Service Unavailable"), Undefined))
  /\ response[1].status = 500
  /\ response[1].body.details = "Service Unavailable"

\* the call that completed last resolved without text
NoTextOutcome ==
  /\ outcome # Undefined
  /\ outcome[1].kind = "response"
  /\ outcome[1].text \in { Undefined, Some("") }

\* C9: a call that resolves with missing or empty text is a failed attempt
\* of the retryable kind: it is recorded as a failure without status, the
\* error caught is the no-text Error, and the handler goes on to the next
\* model (waiting its backoff, then calling it) or, after the last model,
\* to the final classification; a 200 response never carries an empty or
\* missing text.
C9_EmptyTextIsRetryableFailure ==
  /\ NoTextOutcome =>
       LET k == Cardinality({ i \in DOMAIN attempts : attempts[i].result # "pending" })
       IN  /\ k >= 1
           /\ attempts[k].result = "failed"
           /\ attempts[k].status = Undefined
           /\ lastError = Some([status |-> Undefined,
                                message |-> Some("No text response received from API"),
                                nested |-> Undefined])
           /\ IF k < Len(MODELS)
              THEN \/ pc = "delaying" /\ Len(attempts) = k /\ attempt = k
                   \/ /\ pc = "calling"
                      /\ Len(attempts) = k + 1
                      /\ attempts[k + 1].model = MODELS[k + 1]
              ELSE /\ pc = "done"
                   /\ response =
                        Some([status |-> 500,
                              body |-> [error |-> "Failed to generate response from API.",
                                        details |-> "No text response received from API"]])
  /\ (response # Undefined /\ response[1].status = 200) =>
       /\ "response" \in DOMAIN response[1].body
       /\ response[1].body.response # ""

C9_Witness ==
  /\ outcome = Some(Resolved(Some("")))
  /\ pc = "calling"
  /\ Len(attempts) = 2
  /\ attempts[1].result = "failed"
  /\ attempts[2].model = "gemini-2.5-flash"

(***************************************************************************)
(* Properties of the request assembly.                                     *)
(***************************************************************************)
\* the message is absent, empty or whitespace only
BlankMessage(message) ==
  message = Undefined
  \/ \A i \in 1..Len(message[1]) : IsWhitespace(CharAt(message[1], i))

\* the file is an image whose data is not empty after the prefix is
\* stripped and the whitespace removed
YieldsImage(file) ==
  /\ file.type # Undefined
  /\ StartsWith(file.type[1], "image/")
  /\ file.data # Undefined
  /\ CleanBase64(file.data[1]) # ""

\* a parsed body of well-formed entries that has nothing to send
NothingToSend(req) ==
  /\ req.kind = "object"
  /\ BlankMessage(req.message)
  /\ req.files.kind = "array" =>
       \A i \in DOMAIN req.files.items :
         /\ req.files.items[i].kind = "object"
         /\ ~YieldsImage(req.files.items[i])

NoContentResponse ==
  [status |-> 400,
   body |-> [error |-> "No content provided. Please include a message or image."]]

\* C10: when the message is absent, empty or whitespace only and no
\* attachment yields an image part, the assembled contents are empty and the
\* handler returns status 400 without any upstream attempt; no upstream
\* call is ever made with empty contents.
C10_EmptyRequestFailsFast ==
  /\ [][ (pc = "parsing" /\ NothingToSend(request)) =>
           /\ pc' = "done"
           /\ contents' = <<>>
           /\ response' = Some(NoContentResponse)
           /\ attempts' = <<>> ]_vars
  /\ [](response = Some(NoContentResponse) =>
          pc = "done" /\ contents = <<>> /\ attempts = <<>> /\ delays = <<>>)
  /\ [](attempts # <<>> => contents # <<>>)

C10_Witness ==
  /\ pc = "done"
  /\ request = Consumed
  /\ contents = <<>>
  /\ response = Some(NoContentResponse)
  /\ attempts = <<>>

(***************************************************************************)
(* Properties of the configuration check.                                  *)
(***************************************************************************)
NoKeyResponse ==
  [status |-> 500,
   body |-> [error |-> "API key not configured. Please add GEMINI_API_KEY to your environment variables."]]

\* C11: when the API key is not configured, the handler answers every
\* request, whatever its body, with status 500 and the configuration
\* message in its first step: the body is never read, nothing is assembled,
\* no upstream call and no delay is made; the configuration message differs
\* from every other error message and is returned in no other case.
C11_MissingKeyShortCircuits ==
  /\ [][ (pc = "start" /\ ~apiKeySet) =>
           /\ pc' = "done"
           /\ response' = Some(NoKeyResponse)
           /\ request' = request ]_vars
  /\ [](~apiKeySet =>
          /\ pc \in {"start", "done"}
          /\ request # Consumed
          /\ contents = <<>>
          /\ attempts = <<>>
          /\ delays = <<>>
          /\ pc = "done" => response = Some(NoKeyResponse))
  /\ []((response # Undefined /\ "error" \in DOMAIN response[1].body
           /\ response[1].body.error = NoKeyResponse.body.error) => ~apiKeySet)
  /\ [](NoKeyResponse.body.error \notin
          { MSG_BAD_JSON, MSG_NO_CONTENT, MSG_RATE_LIMIT, MSG_AUTH, MSG_FAILED,
            MSG_UNEXPECTED })

C11_Witness ==
  /\ pc = "done"
  /\ ~apiKeySet
  /\ request = [kind |-> "unparseable"]
  /\ response = Some(NoKeyResponse)
  /\ attempts = <<>>

(***************************************************************************)
(* Properties of the assembled contents.                                   *)
(***************************************************************************)
IsImagePart(part) == "inlineData" \in DOMAIN part

IsTextPart(part) == "text" \in DOMAIN part

\* the attachments of a parsed body
AttachmentsOf(req) == IF req.files.kind = "array" THEN req.files.items ELSE <<>>

\* the positions of the attachments that are images with data that is not
\* empty once cleaned
KeptPositions(items) == { i \in DOMAIN items : YieldsImage(items[i]) }

\* the k-th smallest element of a set of numbers
Nth(S, k) == CHOOSE i \in S : Cardinality({ j \in S : j < i }) = k - 1

\* C12: for every list of attachments the image parts of the assembled
\* contents are, in the order of the input, the parts of exactly the
\* attachments whose type begins with "image/" and whose data is not empty
\* after prefix stripping and whitespace removal; every image part has such
\* a type and data that is not empty; the other attachments add nothing and
\* the assembly goes on: the step ends in the first upstream call, or in the
\* 400 of a request whose contents are empty, never in an exception.
C12_ImageFilterKeepsOrder ==
  [][ (pc = "parsing" /\ request.kind = "object") =>
        LET items == AttachmentsOf(request)
            kept == KeptPositions(items)
            images == SelectSeq(contents', IsImagePart)
        IN  /\ \A k \in DOMAIN images :
                 /\ StartsWith(images[k].inlineData.mimeType, "image/")
                 /\ images[k].inlineData.data # ""
            /\ Len(images) = Cardinality(kept)
            /\ \A k \in DOMAIN images :
                 /\ images[k].inlineData.mimeType = items[Nth(kept, k)].type[1]
                 /\ images[k].inlineData.data = CleanBase64(items[Nth(kept, k)].data[1])
            /\ \A k \in DOMAIN contents' :
                 IsImagePart(contents'[k]) => \A j \in 1..k : IsImagePart(contents'[j])
            /\ \/ pc' = "calling" /\ response' = Undefined /\ contents' # <<>>
               \/ pc' = "done" /\ response' = Some(NoContentResponse) /\ contents' = <<>>
    ]_vars

\* a gif, dropped attachments or none, then a png: two image parts in the
\* order of the input
C12_Witness ==
  /\ pc = "calling"
  /\ request = Consumed
  /\ Len(contents) = 3
  /\ contents[1] = [inlineData |-> [data |-> "R0lGODlh", mimeType |-> "image/gif"]]
  /\ contents[2] = [inlineData |-> [data |-> "iVBORw0K", mimeType |-> "image/png"]]
  /\ IsTextPart(contents[3])

\* the positions of the characters of a string that are not whitespace
InkPositions(m) == { i \in 1..Len(m) : ~IsWhitespace(CharAt(m, i)) }

\* a string without the whitespace at its two ends
Trimmed(m) ==
  IF InkPositions(m) = {} THEN ""
  ELSE SubSeq(m, CHOOSE i \in InkPositions(m) : \A j \in InkPositions(m) : i <= j,
                 CHOOSE i \in InkPositions(m) : \A j \in InkPositions(m) : i >= j)

TextPositions(parts) == { k \in DOMAIN parts : IsTextPart(parts[k]) }

\* C13: the assembled contents have at most one text part and it is the
\* last part, after every image part.  Its text is the trimmed message when
\* that is not empty; the default prompt "What is in this image?" when the
\* message is absent, empty or whitespace only and there is an image part;
\* and there is no text part otherwise.
C13_TextPartLast ==
  [][ (pc = "parsing" /\ request.kind = "object") =>
        LET parts == contents'
            texts == TextPositions(parts)
            message == request.message
        IN  /\ Cardinality(texts) <= 1
            /\ texts \subseteq { Len(parts) }
            /\ \A k \in DOMAIN parts : k \notin texts => IsImagePart(parts[k])
            /\ IF ~BlankMessage(message)
               THEN /\ texts # {}
                    /\ parts[Len(parts)].text = Trimmed(message[1])
               ELSE IF \E k \in DOMAIN parts : IsImagePart(parts[k])
               THEN /\ texts # {}
                    /\ parts[Len(parts)].text = "What is in this image?"
               ELSE parts = <<>>
    ]_vars

C13_Witness ==
  /\ pc = "calling"
  /\ request = Consumed
  /\ contents = << [inlineData |-> [data |-> "/9j/4AAQ", mimeType |-> "image/jpeg"]],
                   [text |-> "What is in this image?"] >>

(***************************************************************************)
(* Properties of the attachment data.                                      *)
(***************************************************************************)
\* the positions at which a data-URL prefix "data:<mime>;base64," of the
\* data ends
PrefixEnds(data) ==
  { k \in 13..Len(data) :
      SubSeq(data, 1, 5) = "data:" /\ SubSeq(data, k - 7, k) = ";base64," }

\* the data after its data-URL prefix, all of it when it has none
Payload(data) ==
  IF PrefixEnds(data) = {} THEN data
  ELSE SubSeq(data, 1 + (CHOOSE k \in PrefixEnds(data) : \A j \in PrefixEnds(data) : k <= j),
              Len(data))

IsInk(c) == c \notin {" ", "\n", "\t"}

\* the characters of the pure base64 text of the data
PureBase64Chars(data) == SelectSeq([i \in 1..Len(Payload(data)) |-> CharAt(Payload(data), i)], IsInk)

\* the positions of the attachments that are sent as image parts
SentPositions(items) ==
  { i \in DOMAIN items :
      /\ items[i].type # Undefined
      /\ StartsWith(items[i].type[1], "image/")
      /\ items[i].data # Undefined
      /\ PureBase64Chars(items[i].data[1]) # <<>> }

\* C17: the data of every emitted image part is the base64 text of its
\* attachment with the data-URL prefix "data:<mime>;base64," removed, when
\* there is one, and every whitespace character removed: it has no
\* whitespace and no character of the prefix, and data without a prefix
\* keeps all its characters that are not whitespace, in order.
C17_DataIsPureBase64 ==
  [][ (pc = "parsing" /\ request.kind = "object") =>
        LET items == AttachmentsOf(request)
            sent == SentPositions(items)
            images == SelectSeq(contents', IsImagePart)
        IN  /\ Len(images) = Cardinality(sent)
            /\ \A k \in DOMAIN images :
                 LET original == items[Nth(sent, k)].data[1]
                     data == images[k].inlineData.data
                 IN  /\ Chars(data) = PureBase64Chars(original)
                     /\ \A i \in 1..Len(data) : CharAt(data, i) \notin {" ", "\n", "\t", ",", ":", ";"}
                     /\ PrefixEnds(original) = {} =>
                          Chars(data) = SelectSeq(Chars(original), IsInk)
    ]_vars

\* data with a prefix and interior whitespace, and data without a prefix
\* with whitespace, both sent as pure base64
C17_Witness ==
  /\ pc = "calling"
  /\ request = Consumed
  /\ contents = << [inlineData |-> [data |-> "iVBORw0K", mimeType |-> "image/png"]],
                   [inlineData |-> [data |-> "/9j/4AAQ", mimeType |-> "image/jpeg"]],
                   [text |-> "hi"] >>

(***************************************************************************)
(* Properties of the failure responses.                                    *)
(***************************************************************************)
\* C14: every failure response the handler returns (any status other than
\* 200), whatever the kind of the failure, has both an error text and a
\* details text.
C14_FailureHasErrorAndDetails ==
  (response # Undefined /\ response[1].status # 200) =>
    /\ "error" \in DOMAIN response[1].body
    /\ "details" \in DOMAIN response[1].body

(***************************************************************************)
(* Properties of the handler's boundary.                                   *)
(***************************************************************************)
\* C15: no failure escapes the handler: whatever the body (not JSON, null,
\* a message or a file type that is not a string, null entries in files)
\* and whatever generateContent rejects with (values with or without status
\* and message, messages that are not strings), the handler never ends by
\* throwing, and once it has ended it has returned a response whose status
\* is 200, 400, 401, 429 or 500.
C15_NoFailureEscapes ==
  /\ pc # "threw"
  /\ pc \in {"start", "parsing", "calling", "delaying", "done"}
  /\ pc = "done" <=> response # Undefined
  /\ response # Undefined => response[1].status \in {200, 400, 401, 429, 500}

\* every model fails and the last rejects with a message that is a number:
\* the classification throws and the outer catch answers
C15_Witness ==
  /\ pc = "done"
  /\ Len(attempts) = 5
  /\ lastError = Some(ApiError(Undefined, NonString("42", "number"), Undefined))
  /\ response = Some([status |-> 500,
                      body |-> [error |-> "An unexpected error occurred.",
                                details |-> "errorMessage.toLowerCase is not a function"]])

(***************************************************************************)
(* Properties of the backoff.                                              *)
(***************************************************************************)
\* C16: the first attempt is made without a delay; after a retryable
\* failure of the attempt at index i that is not the last index the handler
\* waits 1000 x (i + 1) ms, once, before the attempt at index i + 1, so the
\* delays of a request are 1000, 2000, 3000, 4000 in this order; no delay
\* is started after the failure of the last attempt, after a client error
\* that ends the chain or after a success; a request that ends with its
\* first attempt has waited no delay.
C16_BackoffGrowsLinearly ==
  /\ [](delays = [k \in 1..Len(delays) |-> 1000 * k])
  /\ [](Len(delays) <= Len(MODELS) - 1)
  /\ [](Len(delays) = IF pc = "delaying" THEN Len(attempts)
                      ELSE IF attempts = <<>> THEN 0
                      ELSE Len(attempts) - 1)
  /\ []((pc = "done" /\ Len(attempts) <= 1) => delays = <<>>)
  /\ [][ delays' # delays =>
           /\ pc = "calling"
           /\ pc' = "delaying"
           /\ attempts'[Len(attempts)].result = "failed"
           /\ ~NonRetryableStatus(attempts'[Len(attempts)].status)
           /\ Len(attempts) < Len(MODELS)
           /\ delays' = Append(delays, 1000 * Len(attempts)) ]_vars
  /\ [][ (pc = "calling" /\ pc' # "delaying") => delays' = delays ]_vars
  /\ [][ Len(attempts') > Len(attempts) =>
           \/ pc = "delaying"
           \/ pc = "parsing" /\ attempts = <<>> /\ delays = <<>> ]_vars

C16_Witness ==
  /\ pc = "done"
  /\ Len(attempts) = 5
  /\ delays = << 1000, 2000, 3000, 4000 >>
  /\ response # Undefined
  /\ response[1].status = 429

(***************************************************************************)
(* Properties of the page.                                                 *)
(***************************************************************************)
\* C18: after any sequence of actions of the page (load, create, select,
\* delete, confirm clear-all, send) the list of conversations is not empty
\* and activeConvId is the id of a conversation of the list.
C18_ActiveConversationListed ==
  /\ Len(conversations) >= 1
  /\ \E i \in DOMAIN conversations : conversations[i].id = activeConvId

\* the positions of the conversations with the id
PositionsOf(convs, id) == { i \in DOMAIN convs : convs[i].id = id }

\* C19: a handleSend that starts a request changes the active conversation
\* only, and when the request settles exactly one assistant message (the
\* reply or an error message) is appended, after the user message, to the
\* conversation that was active when the message was sent; the messages of
\* no other conversation change; isLoading is then false; while isLoading
\* is true no second request is started.
C19_ReplyGoesToSendingConversation ==
  /\ [][ (pending # Undefined /\ pending' = Undefined /\ storageLoaded') =>
           LET target == PositionsOf(conversations, pending[1].convId)
           IN  /\ Cardinality(target) = 1
               /\ DOMAIN conversations' = DOMAIN conversations
               /\ \A i \in DOMAIN conversations :
                    IF i \in target
                    THEN /\ UserMessage(pending[1].req) \in
                              { conversations[i].messages[k] :
                                  k \in DOMAIN conversations[i].messages }
                         /\ \E failed \in BOOLEAN :
                              conversations'[i].messages =
                                Append(conversations[i].messages,
                                       AssistantMessage(pending[1].req, failed))
                    ELSE conversations'[i] = conversations[i]
               /\ isLoading' = FALSE ]_vars
  /\ [][ sends' # sends =>
           /\ ~isLoading
           /\ pending = Undefined
           /\ \A i \in DOMAIN conversations :
                i \notin PositionsOf(conversations, activeConvId) =>
                  conversations'[i] = conversations[i] ]_vars
  /\ [](isLoading <=> pending # Undefined)

====
